---- MODULE Spec2Model ----
(***************************************************************************)
(* Model of rivian-gear-shop-notifier.                                     *)
(*                                                                         *)
(*   scrapper/main.go : the scraper Lambda.  Handler loads the ids of the  *)
(*     DynamoDB product table, visits the gear shop page with colly, runs  *)
(*     the OnHTML callback once per matching anchor (which stores the new  *)
(*     products), and returns a Response.                                  *)
(*   notifier/main.go (and its two SES variants) : the notifier Lambda.    *)
(*     Handler walks a batch of DynamoDB stream records and hands one      *)
(*     message per INSERT record to SNS / SES.                             *)
(*                                                                         *)
(* Strings.  An href, an id and a sku are sequences of one-character       *)
(* strings.  The text of a <p> element is a record [chars, pad]: the       *)
(* characters chars followed by pad filler letters (no "$", no "/"), so    *)
(* that texts of several MiB can be written down.                          *)
(***************************************************************************)
EXTENDS Integers, Sequences, FiniteSets, TLC

(***************************************************************************)
(* Bounds of the model.                                                    *)
(***************************************************************************)
MaxAnchors == 2      \* anchors on the listing page
MaxRuns    == 2      \* invocations of the scraper Handler
MaxRecords == 3      \* records in one DynamoDB stream batch
MaxDeliveries == 2   \* invocations of the notifier Handler with one batch

(***************************************************************************)
(* Strings and texts.                                                      *)
(***************************************************************************)
Text(cs, n) == [chars |-> cs, pad |-> n]

EmptyText == Text(<<>>, 0)

TextLen(t) == Len(t.chars) + t.pad

TextCat(t, u) == Text(t.chars \o u.chars, t.pad + u.pad)

NA == <<"N", "/", "A">>

\* strings.Split(s, sep) for a one-character separator: k separators give
\* k+1 parts, empty parts included.
RECURSIVE SplitLoop(_, _, _, _, _)
SplitLoop(s, sep, i, cur, acc) ==
    IF i > Len(s) THEN Append(acc, cur)
    ELSE IF s[i] = sep THEN SplitLoop(s, sep, i + 1, <<>>, Append(acc, cur))
    ELSE SplitLoop(s, sep, i + 1, Append(cur, s[i]), acc)

Split(s, sep) == SplitLoop(s, sep, 1, <<>>, <<>>)

\* strings.Contains(s, "$")
containsDollarSign(t) == \E i \in 1..Len(t.chars) : t.chars[i] = "$"

(***************************************************************************)
(* The listing page: the anchors matched by the OnHTML selector, in        *)
(* document order.  An anchor is its href attribute and its descendant <p> *)
(* elements; cls = "name" marks the p.rivian-css-1vv3rb5 element.          *)
(***************************************************************************)
P(cls, t) == [cls |-> cls, text |-> t]

HrefA      == <<"/", "p", "/", "a">>
HrefB      == <<"/", "p", "/", "b">>
HrefASlash == <<"/", "p", "/", "a", "/">>

TrailHat == Text(<<"T", "r", "a", "i", "l">>, 4)
Price35  == Text(<<"$", "3", "5">>, 0)
Price40  == Text(<<"$", "4", "0">>, 0)

\* 6*1024*1024, the response payload ceiling of Handler
PayloadLimit == 6291456

\* The JSON of one ProductInfo whose five strings are empty:
\* {"id":"","name":"","sku":"","price":"","url":""}
RecordOverhead == 48

\* A name that makes the page [HrefB, name] serialize to exactly
\* PayloadLimit bytes: 2 brackets + 48 + id 1 + price "N/A" 3 + url 4
EdgeName == Text(<<"E">>, PayloadLimit - 59)

HugeName == Text(<<"H">>, PayloadLimit - 58)

Anchor(h, ps) == [href |-> h, ps |-> ps]

Anchors ==
    { Anchor(HrefA, <<P("name", TrailHat), P("p", Price35)>>),
      Anchor(HrefB, <<P("name", TrailHat)>>),
      Anchor(HrefA, <<P("p", Price35)>>),
      Anchor(HrefASlash, <<P("name", TrailHat), P("p", Price35)>>),
      Anchor(<<>>, <<P("name", TrailHat)>>),
      Anchor(<<>>, <<>>),
      Anchor(HrefB, <<P("name", EdgeName)>>),
      Anchor(HrefB, <<P("name", HugeName)>>),
      Anchor(HrefA, <<P("name", TrailHat), P("p", Price35),
                      P("p", Text(<<"n", "e", "w">>, 0)), P("p", Price40)>>) }

Pages == UNION { [1..n -> Anchors] : n \in 0..MaxAnchors }

\* the URL of the request the collector made: c.Visit's argument
RequestURL == [length |-> 28, query |-> {}]

\* url.Values.Get
QueryGet(q, k) == IF \E kv \in q : kv[1] = k
                  THEN (CHOOSE kv \in q : kv[1] = k)[2]
                  ELSE <<>>

(***************************************************************************)
(* The product table.  An item is keyed by Id.                             *)
(***************************************************************************)
Item(id, name, price, url, date) ==
    [Id |-> id, Name |-> name, Price |-> price, GearShopUrl |-> url,
     DateIndexed |-> date]

OldItems == { Item(<<"a">>, TrailHat, Price35, HrefA, 0),
              Item(<<"b">>, TrailHat, Text(NA, 0), HrefB, 0),
              Item(<<"c">>, TrailHat, Price40, <<"/", "p", "/", "c">>, 0) }

\* The number of items one Scan call returns at most (DynamoDB ends a page
\* at 1 MB and reports the rest through LastEvaluatedKey)
ScanPage == 2

\* what one db.Scan call may return for the table: every item, or one page
ScanResults(tbl) ==
    { items \in SUBSET tbl :
        Cardinality(items) = IF Cardinality(tbl) <= ScanPage
                             THEN Cardinality(tbl) ELSE ScanPage }

VARIABLES
    page,                \* the listing page served to every run
    table,               \* the DynamoDB product table: a set of items
    clock,               \* time.Now(), advanced by every PutItem call
    pc,                  \* where the scraper process is
    run,                 \* number of Handler invocations started
    existingProducts,    \* the package variable of scrapper/main.go
    allProducts,         \* Handler's local
    discoveredProducts,  \* Handler's local
    idx,                 \* the next anchor colly hands to the callback
    resp, err,           \* what Handler returned
    scan,                \* history: how db.Scan of this run ended
    atScan,              \* history: the ids in the table when it was scanned
    canceled,            \* the ctx handed to Handler is canceled
    phases,              \* history: the pipeline phases this run entered
    putLog,              \* history: the PutItem calls of this run
    prev                 \* history: how the previous run ended

svars == <<page, table, clock, pc, run, existingProducts, allProducts,
           discoveredProducts, idx, resp, err, scan, atScan, canceled,
           phases, putLog, prev>>

VARIABLES
    event,               \* the DynamoDB stream batch handed to the notifier
    local,               \* ENVIRONMENT == "local" || AWS_SAM_LOCAL != ""
    nPc,                 \* where the notifier Handler is
    nI,                  \* the record the for loop is at
    products,            \* Handler's local
    sent,                \* history: what SNS / SES accepted, in order
    nResp, nErr,         \* what the notifier Handler returned
    attempt,             \* number of Handler invocations with this batch
    calls                \* history: the Publish / SendEmail calls made

nvars == <<event, local, nPc, nI, products, sent, nResp, nErr, attempt,
           calls>>

\* A second instance of the scraper Lambda, running Handler over the same
\* page and the same table: its package variable, locals and return value.
VARIABLES
    pc2, existingProducts2, allProducts2, discoveredProducts2, idx2,
    resp2, err2,
    putLog2              \* history: the PutItem calls of the second instance

rvars == <<pc2, existingProducts2, allProducts2, discoveredProducts2, idx2,
           resp2, err2, putLog2>>

vars == <<svars, nvars, rvars>>

(***************************************************************************)
(* scrapper/main.go                                                        *)
(***************************************************************************)
ProductInfo(id, name, sku, price, url) ==
    [Id |-> id, Name |-> name, SKU |-> sku, Price |-> price, URL |-> url]

Response(msg, nd, ni) ==
    [Message |-> msg, NumberDiscovered |-> nd, NumberIndexed |-> ni]

\* fmt.Sprintf("Indexed %d new product listings", n); Response{} has ""
IndexedMessage(n) == [text |-> "Indexed %d new product listings", n |-> n]

EmptyResponse == Response([text |-> "", n |-> 0], 0, 0)

\* the map built by loadExistingProducts from result.Items
KnownIds(items) == { it.Id : it \in items }

\* mutant: the ids of the previous run stay in the map
LoadedSet_Merge(old, ids) == old \cup ids

\* existingProducts = make(map[string]bool), then one entry per scanned id
LoadedSet(old, ids) == ids

\* extractPrice: ForEach over every <p>, each match overwrites price
RECURSIVE extractPriceLoop(_, _, _, _)
extractPriceLoop(ps, i, price, priceFound) ==
    IF i > Len(ps)
    THEN IF ~priceFound THEN Text(NA, 0) ELSE price
    ELSE IF ps[i].text # EmptyText /\ containsDollarSign(ps[i].text)
         THEN extractPriceLoop(ps, i + 1, ps[i].text, TRUE)
         ELSE extractPriceLoop(ps, i + 1, price, priceFound)

\* mutant: the first <p> with a dollar sign wins
extractPrice_First(e) ==
    LET hits == { i \in 1..Len(e.ps) :
                    e.ps[i].text # EmptyText /\ containsDollarSign(e.ps[i].text) }
    IN  IF hits = {} THEN Text(NA, 0)
        ELSE e.ps[CHOOSE i \in hits : \A j \in hits : i <= j].text

extractPrice(e) == extractPriceLoop(e.ps, 1, EmptyText, FALSE)

\* extractSku: reads the request URL, not the anchor
extractSku(reqURL) ==
    IF reqURL.length > 0
    THEN IF QueryGet(reqURL.query, "sku") # <<>>
         THEN QueryGet(reqURL.query, "sku")
         ELSE <<>>
    ELSE NA

\* e.ChildText(sel): the concatenated text of the matching elements
RECURSIVE ChildTextLoop(_, _, _)
ChildTextLoop(ps, i, acc) ==
    IF i > Len(ps) THEN acc
    ELSE IF ps[i].cls = "name" THEN ChildTextLoop(ps, i + 1, TextCat(acc, ps[i].text))
    ELSE ChildTextLoop(ps, i + 1, acc)

ChildText(e) == ChildTextLoop(e.ps, 1, EmptyText)

\* id := parts[len(parts)-1]
IdOf(url) ==
    LET parts == Split(url, "/")
    IN  IF Len(parts) > 0 THEN parts[Len(parts)] ELSE <<>>

\* mutant: one non-empty field of id, name, url is enough
Parseable_AnyField(id, name, url, price) ==
    (id # <<>> \/ name # EmptyText \/ url # <<>>) /\ price # EmptyText

\* the condition under which the callback builds a ProductInfo
Parseable(id, name, url, price) ==
    id # <<>> /\ name # EmptyText /\ url # <<>> /\ price # EmptyText

\* the ProductInfo the callback builds for anchor e
Candidate(e) ==
    ProductInfo(IdOf(e.href), ChildText(e), extractSku(RequestURL),
                extractPrice(e), e.href)

\* mutant: the membership test always misses
IsExisting_Never(known, id) == FALSE

\* existingProducts[productInfo.Id]
IsExisting(known, id) == id \in known

\* mutant: an item whose Id is in the table is not replaced
PutItem_IfAbsent(tbl, p, now) ==
    IF \E it \in tbl : it.Id = p.Id THEN tbl
    ELSE tbl \cup { Item(p.Id, p.Name, p.Price, p.URL, now) }

\* mutant: PutItem reports success and stores nothing
PutItem_Lost(tbl, p, now) == tbl

\* db.PutItem with the Item of storeProduct: replaces the item of that Id
PutItem(tbl, p, now) ==
    { it \in tbl : it.Id # p.Id }
        \cup { Item(p.Id, p.Name, p.Price, p.URL, now) }

\* len(json.Marshal(allProducts)); a nil slice marshals to null
RECURSIVE SumLen(_, _)
SumLen(all, i) ==
    IF i > Len(all) THEN 0
    ELSE RecordOverhead + Len(all[i].Id) + TextLen(all[i].Name)
         + Len(all[i].SKU) + TextLen(all[i].Price) + Len(all[i].URL)
         + SumLen(all, i + 1)

MarshalLen(all) ==
    IF all = <<>> THEN 4 ELSE 2 + (Len(all) - 1) + SumLen(all, 1)

\* mutant: the guard rejects a payload of exactly the limit
TooLarge_AtLimit(n) == n >= PayloadLimit

TooLarge(n) == n > PayloadLimit

NumberIndexedOf(discovered) == Len(discovered)

\* mutant: the error of loadExistingProducts is ignored
AfterLoadError_Continue == "loaded"

\* log.Fatalf on the error of loadExistingProducts: os.Exit(1)
AfterLoadError == "fatal"

\* mutant: a failed store ends the process
AfterStore_Fatal(ok) == IF ok THEN "visiting" ELSE "fatal"

\* the error of storeProduct is logged and the callback returns normally
AfterStore(ok) == "visiting"

\* mutant: a summary goes out with the error
VisitErrorResponse_Partial == Response(IndexedMessage(0), 0, 0)

\* return Response{}, err after c.Visit failed
VisitErrorResponse == EmptyResponse

\* mutant: the new record is put in front of the list
AppendNew_Front(list, p) == <<p>> \o list

\* discoveredProducts = append(discoveredProducts, productInfo)
AppendNew(list, p) == Append(list, p)

\* the phases one call of the callback goes through: the fields are
\* extracted, the record is tested (all fields set, id not yet known), and
\* a new record is stored
PhasesOfCallback(p, known) ==
    IF Parseable(p.Id, p.Name, p.URL, p.Price) /\ ~IsExisting(known, p.Id)
    THEN <<"EXTRACT", "DEDUP", "PERSIST_EACH">>
    ELSE <<"EXTRACT", "DEDUP">>

NoPrev ==
    [returned |-> FALSE, err |-> "nil", putsOK |-> TRUE, known |-> {},
     failed |-> {}]

\* how the run now ending looks to the next one
EndOfRun ==
    [returned |-> pc = "returned", err |-> err,
     putsOK |-> \A i \in 1..Len(putLog) : putLog[i].ok,
     known |-> existingProducts,
     failed |-> { putLog[i].id : i \in { j \in 1..Len(putLog) : ~putLog[j].ok } }]

InitScraper ==
    /\ page \in Pages
    /\ table \in SUBSET OldItems
    /\ clock = 1
    /\ pc = "idle"
    /\ run = 0
    /\ existingProducts = {}
    /\ allProducts = <<>>
    /\ discoveredProducts = <<>>
    /\ idx = 0
    /\ resp = EmptyResponse
    /\ err = "nil"
    /\ scan = "none"
    /\ atScan = {}
    /\ canceled = FALSE
    /\ phases = <<>>
    /\ putLog = <<>>
    /\ prev = NoPrev

\* Handler is invoked and loadExistingProducts succeeds
LoadOK ==
    /\ pc \in {"idle", "returned"}
    /\ run < MaxRuns
    /\ run' = run + 1
    /\ prev' = EndOfRun
    /\ \E items \in ScanResults(table) :
          /\ existingProducts' = LoadedSet(existingProducts, KnownIds(items))
          /\ scan' = IF items = table THEN "ok" ELSE "truncated"
    /\ atScan' = KnownIds(table)
    /\ allProducts' = <<>>
    /\ discoveredProducts' = <<>>
    /\ putLog' = <<>>
    /\ idx' = 0
    /\ resp' = EmptyResponse
    /\ err' = "nil"
    /\ pc' = "loaded"
    /\ UNCHANGED <<page, table, clock>>
    /\ UNCHANGED nvars
    /\ UNCHANGED rvars
    /\ canceled' = FALSE
    /\ phases' = <<"LOAD_KNOWN">>

\* Handler is invoked and db.Scan fails: log.Fatalf ends the process
LoadFail ==
    /\ pc \in {"idle", "returned"}
    /\ run < MaxRuns
    /\ run' = run + 1
    /\ prev' = EndOfRun
    /\ allProducts' = <<>>
    /\ discoveredProducts' = <<>>
    /\ putLog' = <<>>
    /\ idx' = 0
    /\ resp' = EmptyResponse
    /\ err' = "nil"
    /\ scan' = "failed"
    /\ atScan' = {}
    /\ pc' = AfterLoadError
    /\ UNCHANGED <<page, table, clock, existingProducts>>
    /\ UNCHANGED nvars
    /\ UNCHANGED rvars
    /\ canceled' = FALSE
    /\ phases' = <<"LOAD_KNOWN", "FAILED">>

\* the Lambda runtime starts a new process after the fatal exit
ColdStart ==
    /\ pc = "fatal"
    /\ pc' = "idle"
    /\ existingProducts' = {}
    /\ UNCHANGED <<page, table, clock, run, allProducts, discoveredProducts,
                   idx, resp, err, scan, putLog, prev>>
    /\ UNCHANGED nvars
    /\ UNCHANGED atScan
    /\ UNCHANGED rvars
    /\ UNCHANGED canceled
    /\ UNCHANGED phases

\* c.Visit fails: no callback runs, Handler returns Response{}, err
VisitFail ==
    /\ pc = "loaded"
    /\ resp' = VisitErrorResponse
    /\ err' = "visit"
    /\ pc' = "returned"
    /\ UNCHANGED <<page, table, clock, run, existingProducts, allProducts,
                   discoveredProducts, idx, scan, putLog, prev>>
    /\ UNCHANGED nvars
    /\ UNCHANGED atScan
    /\ UNCHANGED rvars
    /\ UNCHANGED canceled
    /\ phases' = phases \o <<"FETCH_DOCUMENT", "FAILED">>

\* c.Visit got the page: colly starts calling the OnHTML callback
VisitOK ==
    /\ pc = "loaded"
    /\ idx' = 1
    /\ pc' = "visiting"
    /\ UNCHANGED <<page, table, clock, run, existingProducts, allProducts,
                   discoveredProducts, resp, err, scan, putLog, prev>>
    /\ UNCHANGED nvars
    /\ UNCHANGED atScan
    /\ UNCHANGED rvars
    /\ UNCHANGED canceled
    /\ phases' = Append(phases, "FETCH_DOCUMENT")

\* the OnHTML callback for the next anchor, storeProduct included
OnHTML ==
    /\ pc = "visiting"
    /\ idx <= Len(page)
    /\ LET productInfo == Candidate(page[idx])
       IN  IF Parseable(productInfo.Id, productInfo.Name, productInfo.URL,
                        productInfo.Price)
           THEN /\ allProducts' = Append(allProducts, productInfo)
                /\ IF IsExisting(existingProducts, productInfo.Id)
                   THEN UNCHANGED <<discoveredProducts, table, clock, putLog,
                                    pc>>
                   ELSE /\ discoveredProducts' =
                              AppendNew(discoveredProducts, productInfo)
                        /\ clock' = clock + 1
                        /\ \E ok \in BOOLEAN :
                              /\ table' = IF ok
                                          THEN PutItem(table, productInfo, clock)
                                          ELSE table
                              /\ putLog' = Append(putLog,
                                     [id |-> productInfo.Id, ok |-> ok,
                                      at |-> idx, t |-> clock])
                              /\ pc' = AfterStore(ok)
           ELSE UNCHANGED <<allProducts, discoveredProducts, table, clock,
                            putLog, pc>>
    /\ idx' = idx + 1
    /\ UNCHANGED <<page, run, existingProducts, resp, err, scan, prev>>
    /\ UNCHANGED nvars
    /\ UNCHANGED atScan
    /\ UNCHANGED rvars
    /\ UNCHANGED canceled
    /\ phases' = phases \o PhasesOfCallback(Candidate(page[idx]), existingProducts)

\* c.Visit returned nil: marshal, payload guard, summary
Return ==
    /\ pc = "visiting"
    /\ idx > Len(page)
    /\ IF TooLarge(MarshalLen(allProducts))
       THEN /\ resp' = EmptyResponse
            /\ err' = "response payload too large"
       ELSE /\ resp' = Response(IndexedMessage(Len(discoveredProducts)),
                                Len(allProducts),
                                NumberIndexedOf(discoveredProducts))
            /\ err' = "nil"
    /\ pc' = "returned"
    /\ UNCHANGED <<page, table, clock, run, existingProducts, allProducts,
                   discoveredProducts, idx, scan, putLog, prev>>
    /\ UNCHANGED nvars
    /\ UNCHANGED atScan
    /\ UNCHANGED rvars
    /\ UNCHANGED canceled
    /\ phases' = phases \o <<"SUMMARIZE", IF TooLarge(MarshalLen(allProducts))
                                          THEN "FAILED" ELSE "DONE">>


\* the caller cancels ctx while Handler runs; Handler never reads ctx, and
\* db.Scan, c.Visit and db.PutItem are called without it
Cancel ==
    /\ pc \in {"loaded", "visiting"}
    /\ ~canceled
    /\ canceled' = TRUE
    /\ UNCHANGED <<page, table, clock, pc, run, existingProducts, allProducts,
                   discoveredProducts, idx, resp, err, scan, atScan, putLog,
                   prev>>
    /\ UNCHANGED nvars
    /\ UNCHANGED rvars
    /\ UNCHANGED phases

(***************************************************************************)
(* notifier/main.go (the SNS notifier; the two SES notifiers have the same *)
(* Handler with sesClient.SendEmail in place of snsClient.Publish)         *)
(***************************************************************************)
StreamRecord(name, id, nm, price, url) ==
    [EventName |-> name,
     NewImage |-> [Id |-> id, Name |-> nm, Price |-> price,
                   GearShopUrl |-> url]]

StreamRecords ==
    { StreamRecord("INSERT", <<"a">>, TrailHat, Price35, HrefA),
      StreamRecord("INSERT", <<"b">>, TrailHat, Text(NA, 0), HrefB),
      StreamRecord("INSERT", <<>>, EmptyText, Price35, <<>>),
      StreamRecord("MODIFY", <<"a">>, TrailHat, Price40, HrefA),
      StreamRecord("REMOVE", <<"b">>, TrailHat, Price35, HrefB) }

Batches == UNION { [1..n -> StreamRecords] : n \in 0..MaxRecords }

\* fmt.Sprintf("New Rivian Gear Shop product added: %s, Url: %s%s, Price: %s")
NotifyMessage(r) ==
    [name |-> r.NewImage.Name, url |-> r.NewImage.GearShopUrl,
     price |-> r.NewImage.Price]

\* id == "" && name == "" && url == ""
FailedToParse(r) ==
    /\ r.NewImage.Id = <<>>
    /\ r.NewImage.Name = EmptyText
    /\ r.NewImage.GearShopUrl = <<>>

\* where the for loop goes after a break: past the last record
Break(i, n) == n + 1

NotifierResponse(n, ps) ==
    [Message |-> [text |-> "Successfully processed %d DynamoDB stream event(s)",
                  n |-> n],
     Products |-> ps]

EmptyNotifierResponse == [Message |-> [text |-> "", n |-> 0], Products |-> <<>>]

\* mutant: the records handled so far are reported next to the error
PublishErrorResponse_Partial(n, ps) == NotifierResponse(n, ps)

\* return Response{}, fmt.Errorf("failed to publish SNS message: %v", err)
PublishErrorResponse(n, ps) == EmptyNotifierResponse

NotifierOff ==
    /\ event = <<>>
    /\ local = FALSE
    /\ nPc = "off"
    /\ nI = 0
    /\ products = <<>>
    /\ sent = <<>>
    /\ nResp = EmptyNotifierResponse
    /\ nErr = "nil"
    /\ attempt = 0
    /\ calls = <<>>

ScraperOff ==
    /\ page = <<>>
    /\ table = {}
    /\ clock = 1
    /\ pc = "off"
    /\ run = 0
    /\ existingProducts = {}
    /\ allProducts = <<>>
    /\ discoveredProducts = <<>>
    /\ idx = 0
    /\ resp = EmptyResponse
    /\ err = "nil"
    /\ scan = "none"
    /\ atScan = {}
    /\ canceled = FALSE
    /\ phases = <<>>
    /\ putLog = <<>>
    /\ prev = NoPrev

InitNotifier ==
    /\ event \in Batches
    /\ local \in BOOLEAN
    /\ nPc = "loop"
    /\ nI = 1
    /\ products = <<>>
    /\ sent = <<>>
    /\ nResp = EmptyNotifierResponse
    /\ nErr = "nil"
    /\ attempt = 1
    /\ calls = <<>>

\* one iteration of the for loop over a record that is not an INSERT
SkipRecord ==
    /\ nPc = "loop"
    /\ nI <= Len(event)
    /\ event[nI].EventName # "INSERT"
    /\ nI' = nI + 1
    /\ UNCHANGED <<event, local, nPc, products, sent, nResp, nErr>>
    /\ UNCHANGED svars
    /\ UNCHANGED rvars
    /\ UNCHANGED <<attempt, calls>>

\* one iteration over an INSERT record, the Publish / SendEmail call included
InsertRecord ==
    /\ nPc = "loop"
    /\ nI <= Len(event)
    /\ event[nI].EventName = "INSERT"
    /\ IF FailedToParse(event[nI])
       THEN /\ nI' = Break(nI, Len(event))
            /\ UNCHANGED <<nPc, products, sent, nResp, nErr, calls>>
       ELSE /\ products' = Append(products, [ID |-> event[nI].NewImage.Id])
            /\ IF local
               THEN /\ nI' = Break(nI, Len(event))
                    /\ UNCHANGED <<nPc, sent, nResp, nErr, calls>>
               ELSE \E ok \in BOOLEAN :
                      /\ calls' = Append(calls,
                             [att |-> attempt, i |-> nI, ok |-> ok])
                      /\ IF ok
                         THEN /\ sent' = Append(sent, NotifyMessage(event[nI]))
                              /\ nI' = nI + 1
                              /\ UNCHANGED <<nPc, nResp, nErr>>
                         ELSE /\ nResp' = PublishErrorResponse(Len(event),
                                                               products')
                              /\ nErr' = "failed to publish"
                              /\ nPc' = "returned"
                              /\ UNCHANGED <<nI, sent>>
    /\ UNCHANGED <<event, local, attempt>>
    /\ UNCHANGED svars
    /\ UNCHANGED rvars

\* the loop is over: Handler returns the response
NotifierReturn ==
    /\ nPc = "loop"
    /\ nI > Len(event)
    /\ nResp' = NotifierResponse(Len(event), products)
    /\ nErr' = "nil"
    /\ nPc' = "returned"
    /\ UNCHANGED <<event, local, nI, products, sent>>
    /\ UNCHANGED svars
    /\ UNCHANGED rvars
    /\ UNCHANGED <<attempt, calls>>

\* the event source hands the batch to Handler again after Handler returned
\* an error: a new invocation, with the same records, from the first one
Redeliver ==
    /\ nPc = "returned"
    /\ nErr # "nil"
    /\ attempt < MaxDeliveries
    /\ attempt' = attempt + 1
    /\ nPc' = "loop"
    /\ nI' = 1
    /\ products' = <<>>
    /\ nResp' = EmptyNotifierResponse
    /\ nErr' = "nil"
    /\ UNCHANGED <<event, local, sent, calls>>
    /\ UNCHANGED svars
    /\ UNCHANGED rvars

(***************************************************************************)
(* The second scraper instance: the same Handler over its own variables.   *)
(***************************************************************************)
RivalOff ==
    /\ pc2 = "off"
    /\ existingProducts2 = {}
    /\ allProducts2 = <<>>
    /\ discoveredProducts2 = <<>>
    /\ idx2 = 0
    /\ resp2 = EmptyResponse
    /\ err2 = "nil"
    /\ putLog2 = <<>>

InitRival ==
    /\ pc2 = "idle"
    /\ existingProducts2 = {}
    /\ allProducts2 = <<>>
    /\ discoveredProducts2 = <<>>
    /\ idx2 = 0
    /\ resp2 = EmptyResponse
    /\ err2 = "nil"
    /\ putLog2 = <<>>

\* the second instance is invoked and loadExistingProducts succeeds
LoadOK2 ==
    /\ pc2 = "idle"
    /\ \E items \in ScanResults(table) :
          existingProducts2' = LoadedSet(existingProducts2, KnownIds(items))
    /\ pc2' = "loaded"
    /\ UNCHANGED <<allProducts2, discoveredProducts2, idx2, resp2, err2,
                   putLog2>>
    /\ UNCHANGED <<svars, nvars>>

\* the second instance is invoked and db.Scan fails
LoadFail2 ==
    /\ pc2 = "idle"
    /\ pc2' = AfterLoadError
    /\ UNCHANGED <<existingProducts2, allProducts2, discoveredProducts2,
                   idx2, resp2, err2, putLog2>>
    /\ UNCHANGED <<svars, nvars>>

VisitFail2 ==
    /\ pc2 = "loaded"
    /\ resp2' = VisitErrorResponse
    /\ err2' = "visit"
    /\ pc2' = "returned"
    /\ UNCHANGED <<existingProducts2, allProducts2, discoveredProducts2,
                   idx2, putLog2>>
    /\ UNCHANGED <<svars, nvars>>

VisitOK2 ==
    /\ pc2 = "loaded"
    /\ idx2' = 1
    /\ pc2' = "visiting"
    /\ UNCHANGED <<existingProducts2, allProducts2, discoveredProducts2,
                   resp2, err2, putLog2>>
    /\ UNCHANGED <<svars, nvars>>

\* the OnHTML callback of the second instance: it writes the shared table
OnHTML2 ==
    /\ pc2 = "visiting"
    /\ idx2 <= Len(page)
    /\ LET productInfo == Candidate(page[idx2])
       IN  IF Parseable(productInfo.Id, productInfo.Name, productInfo.URL,
                        productInfo.Price)
           THEN /\ allProducts2' = Append(allProducts2, productInfo)
                /\ IF IsExisting(existingProducts2, productInfo.Id)
                   THEN UNCHANGED <<discoveredProducts2, table, clock,
                                    putLog2, pc2>>
                   ELSE /\ discoveredProducts2' =
                              AppendNew(discoveredProducts2, productInfo)
                        /\ clock' = clock + 1
                        /\ \E ok \in BOOLEAN :
                              /\ table' = IF ok
                                          THEN PutItem(table, productInfo, clock)
                                          ELSE table
                              /\ putLog2' = Append(putLog2,
                                     [id |-> productInfo.Id, ok |-> ok,
                                      at |-> idx2, t |-> clock])
                              /\ pc2' = AfterStore(ok)
           ELSE UNCHANGED <<allProducts2, discoveredProducts2, table, clock,
                            putLog2, pc2>>
    /\ idx2' = idx2 + 1
    /\ UNCHANGED <<existingProducts2, resp2, err2>>
    /\ UNCHANGED <<page, pc, run, existingProducts, allProducts,
                   discoveredProducts, idx, resp, err, scan, atScan, canceled,
                   phases, putLog, prev>>
    /\ UNCHANGED nvars

Return2 ==
    /\ pc2 = "visiting"
    /\ idx2 > Len(page)
    /\ IF TooLarge(MarshalLen(allProducts2))
       THEN /\ resp2' = EmptyResponse
            /\ err2' = "response payload too large"
       ELSE /\ resp2' = Response(IndexedMessage(Len(discoveredProducts2)),
                                 Len(allProducts2),
                                 NumberIndexedOf(discoveredProducts2))
            /\ err2' = "nil"
    /\ pc2' = "returned"
    /\ UNCHANGED <<existingProducts2, allProducts2, discoveredProducts2,
                   idx2, putLog2>>
    /\ UNCHANGED <<svars, nvars>>

(***************************************************************************)
(* The Lambdas are separate processes.  Spec is one scraper instance run   *)
(* again and again, RaceSpec two scraper instances that run once each,     *)
(* interleaved, NotifierSpec the notifier.                                 *)
(***************************************************************************)
Init == InitScraper /\ NotifierOff /\ RivalOff

Next ==
    \/ LoadOK
    \/ LoadFail
    \/ ColdStart
    \/ VisitFail
    \/ VisitOK
    \/ OnHTML
    \/ Return
    \/ Cancel

Spec == Init /\ [][Next]_vars

NotifierInit == ScraperOff /\ InitNotifier /\ RivalOff

\* the pages of the race: a new product twice, with two prices, and another
RaceAnchors ==
    { Anchor(HrefA, <<P("name", TrailHat), P("p", Price35)>>),
      Anchor(HrefB, <<P("name", TrailHat)>>),
      Anchor(HrefA, <<P("name", TrailHat), P("p", Price35),
                      P("p", Text(<<"n", "e", "w">>, 0)), P("p", Price40)>>) }

RaceInit ==
    /\ InitScraper
    /\ page \in UNION { [1..n -> RaceAnchors] : n \in 1..MaxAnchors }
    /\ NotifierOff
    /\ InitRival

\* the first instance runs once
FirstLoadOK == run = 0 /\ LoadOK

FirstLoadFail == run = 0 /\ LoadFail

RaceNext ==
    \/ FirstLoadOK
    \/ FirstLoadFail
    \/ VisitFail
    \/ VisitOK
    \/ OnHTML
    \/ Return
    \/ LoadOK2
    \/ LoadFail2
    \/ VisitFail2
    \/ VisitOK2
    \/ OnHTML2
    \/ Return2

RaceSpec == RaceInit /\ [][RaceNext]_vars

NotifierNext ==
    \/ SkipRecord
    \/ InsertRecord
    \/ NotifierReturn

NotifierSpec == NotifierInit /\ [][NotifierNext]_vars

\* the notifier with the batch handed to it again after an error
RedeliveryNext ==
    \/ SkipRecord
    \/ InsertRecord
    \/ NotifierReturn
    \/ Redeliver

RedeliverySpec == NotifierInit /\ [][RedeliveryNext]_vars

TypeOK ==
    /\ pc \in {"off", "idle", "loaded", "visiting", "returned", "fatal"}
    /\ run \in 0..MaxRuns
    /\ idx \in 0..(Len(page) + 1)
    /\ err \in {"nil", "visit", "response payload too large"}
    /\ nPc \in {"off", "loop", "returned"}
    /\ nI \in 0..(Len(event) + 1)

(***************************************************************************)
(* Properties of the scraper (specification Spec).                         *)
(***************************************************************************)
Summarized == pc = "returned" /\ err = "nil"

\* the anchors the callback has been called for
Seen == 1..(IF idx = 0 THEN 0 ELSE idx - 1)

HasId(e)   == IdOf(e.href) # <<>>
HasName(e) == ChildText(e) # EmptyText
HasUrl(e)  == e.href # <<>>

KnownAnchors == { i \in DOMAIN page : IdOf(page[i].href) \in existingProducts }

\* C2, first half: a candidate whose id is in the known set is never in
\* discoveredProducts and never the subject of a PutItem call.
C2_KnownNeverStored ==
    /\ \A k \in 1..Len(discoveredProducts) :
          discoveredProducts[k].Id \notin existingProducts
    /\ \A k \in 1..Len(putLog) : putLog[k].id \notin existingProducts

\* C2 as claimed: first half, and every anchor whose id is in the known set
\* is counted in numberDiscovered (discovered = indexed + known).
C2_KnownAlwaysCounted ==
    /\ C2_KnownNeverStored
    /\ Summarized =>
          resp.NumberDiscovered - resp.NumberIndexed = Cardinality(KnownAnchors)

\* C2 as amended: first half, and every anchor whose id is in the known set
\* and whose name is not empty is counted in numberDiscovered.
C2_KnownCountedWhenNamed ==
    /\ C2_KnownNeverStored
    /\ Summarized =>
          resp.NumberDiscovered - resp.NumberIndexed =
              Cardinality({ i \in KnownAnchors : HasName(page[i]) })

\* a summary over a page with a known product whose price differs from the
\* stored one
C2_Witness ==
    /\ Summarized
    /\ \E i \in KnownAnchors :
          /\ HasName(page[i])
          /\ \E it \in table : /\ it.Id = IdOf(page[i].href)
                               /\ it.Price # extractPrice(page[i])

\* the anchors of a new product: all fields set, id not in the known set
NewAnchors ==
    { i \in DOMAIN page : /\ HasId(page[i]) /\ HasName(page[i])
                          /\ IdOf(page[i].href) \notin existingProducts }

\* C3: every new record the callback has seen got its PutItem call, in
\* document order, whatever the outcome of the earlier calls; a failed
\* call never ends the process, and a run that got the page returns the
\* summary unless the payload guard rejects it.
C3_BatchResilience ==
    /\ pc \in {"visiting", "returned"} =>
          /\ Len(putLog) = Len(discoveredProducts)
          /\ \A k \in 1..Len(putLog) : putLog[k].id = discoveredProducts[k].Id
          /\ { putLog[k].at : k \in 1..Len(putLog) } = NewAnchors \cap Seen
    /\ pc = "fatal" => putLog = <<>>
    /\ (pc = "returned" /\ idx > 0 /\ MarshalLen(allProducts) <= PayloadLimit)
          => Summarized

\* a summary after a failed store followed by a further store
C3_Witness ==
    /\ Summarized
    /\ Len(putLog) = 2
    /\ ~putLog[1].ok

\* C4 as claimed: numberIndexed is the number of successful PutItem calls.
C4_IndexedCountsSuccessfulWrites ==
    Summarized =>
        resp.NumberIndexed = Cardinality({ k \in 1..Len(putLog) : putLog[k].ok })

AnyField(e)  == HasId(e) \/ HasName(e) \/ HasUrl(e)
AllFields(e) == HasId(e) /\ HasName(e) /\ HasUrl(e)

\* the ProductInfos of those anchors 1..n that have all fields (all = TRUE)
\* or some field (all = FALSE), in document order
RECURSIVE Kept(_, _, _)
Kept(pg, n, all) ==
    IF n = 0 THEN <<>>
    ELSE IF (IF all THEN AllFields(pg[n]) ELSE AnyField(pg[n]))
         THEN Append(Kept(pg, n - 1, all), Candidate(pg[n]))
         ELSE Kept(pg, n - 1, all)

\* C5 as claimed: allProducts holds exactly the candidates with a non-empty
\* id, name or url.
C5_ParseableIffAnyField ==
    pc \in {"visiting", "returned"} =>
        allProducts = Kept(page, Cardinality(Seen), FALSE)

\* C5 as amended: allProducts holds exactly the candidates whose id, name
\* and url are all non-empty, and numberDiscovered is their number.
C5_ParseableIffAllFields ==
    /\ pc \in {"visiting", "returned"} =>
          allProducts = Kept(page, Cardinality(Seen), TRUE)
    /\ Summarized => resp.NumberDiscovered = Len(allProducts)

\* a summary over a page with a candidate that has a name only and one
\* that has all fields
C5_Witness ==
    /\ Summarized
    /\ \E i \in DOMAIN page : ~HasId(page[i]) /\ HasName(page[i]) /\ ~HasUrl(page[i])
    /\ \E i \in DOMAIN page : AllFields(page[i])

\* C6: a run whose known-set scan failed ends with the process dead: no
\* PutItem call, no callback over the page, nothing returned.
C6_ScanFailureIsFatal ==
    scan = "failed" =>
        /\ pc \in {"fatal", "idle"}
        /\ putLog = <<>>
        /\ idx = 0
        /\ allProducts = <<>> /\ discoveredProducts = <<>>
        /\ resp = EmptyResponse /\ err = "nil"

\* the scan failed while the page lists a product the table lacks
C6_Witness ==
    /\ scan = "failed"
    /\ pc = "fatal"
    /\ \E i \in DOMAIN page :
          AllFields(page[i]) /\ IdOf(page[i].href) \notin KnownIds(table)

\* C7: a run that returns without having got the page returns the visit
\* error with the empty Response; every return is a summary with no error
\* or an error with the empty Response; nothing is returned before that.
C7_SummaryOrError ==
    /\ (pc = "returned" /\ idx = 0) =>
          err = "visit" /\ resp = EmptyResponse /\ putLog = <<>>
    /\ pc = "returned" =>
          \/ err = "nil" /\ resp.Message.text # ""
          \/ err # "nil" /\ resp = EmptyResponse
    /\ pc # "returned" => resp = EmptyResponse /\ err = "nil"

\* the fetch failed for a page that lists a new product
C7_Witness ==
    /\ pc = "returned"
    /\ err = "visit"
    /\ NewAnchors # {}

\* C8: a run that got the page fails with the payload error, and the empty
\* Response, exactly when the JSON of allProducts is longer than 6 MiB,
\* whatever the PutItem calls returned.
C8_PayloadGuard ==
    (pc = "returned" /\ idx > 0) =>
        IF MarshalLen(allProducts) > 6291456
        THEN err = "response payload too large" /\ resp = EmptyResponse
        ELSE err = "nil"

\* the guard rejected a run one of whose stores had failed
C8_Witness ==
    /\ pc = "returned"
    /\ err = "response payload too large"
    /\ \E k \in 1..Len(putLog) : ~putLog[k].ok

\* C10 as claimed: within one run an id is appended to discoveredProducts
\* at most once, stored at most once, and counted at most once.
C10_OneStorePerId ==
    /\ \A j, k \in 1..Len(discoveredProducts) :
          discoveredProducts[j].Id = discoveredProducts[k].Id => j = k
    /\ \A j, k \in 1..Len(putLog) : putLog[j].id = putLog[k].id => j = k
    /\ Summarized =>
          resp.NumberIndexed <=
              Cardinality({ discoveredProducts[k].Id :
                              k \in 1..Len(discoveredProducts) })

\* C11 as claimed: after a successful loadExistingProducts the known set is
\* exactly the set of the Ids stored in the table when it was scanned.
C11_KnownSetIsWholeTable ==
    (scan \in {"ok", "truncated"} /\ pc \in {"loaded", "visiting", "returned"})
        => existingProducts = atScan

\* C13 as claimed: a run whose ctx was canceled while it was in progress
\* does not return a summary, and the items its successful PutItem calls
\* stored are still in the table.
C13_CanceledRunFails ==
    canceled =>
        /\ pc = "returned" => err # "nil"
        /\ \A k \in 1..Len(putLog) :
              putLog[k].ok => \E it \in table : it.Id = putLog[k].id

\* the url has a query part
HasQuery(url) == \E i \in 1..Len(url) : url[i] = "?"

\* C14 as claimed: a candidate whose url has no sku query parameter has the
\* sku "N/A".
C14_SkuFallback ==
    \A k \in 1..Len(allProducts) :
        ~HasQuery(allProducts[k].URL) => allProducts[k].SKU = NA

\* the indices of the anchors 1..n that have all fields, in document order
RECURSIVE KeptAt(_, _)
KeptAt(pg, n) ==
    IF n = 0 THEN <<>>
    ELSE IF AllFields(pg[n]) THEN Append(KeptAt(pg, n - 1), n)
    ELSE KeptAt(pg, n - 1)

\* the <p> elements of an anchor whose text has a "$"
Priced(e) ==
    { i \in 1..Len(e.ps) :
        \E j \in 1..Len(e.ps[i].text.chars) : e.ps[i].text.chars[j] = "$" }

FirstPriced(e) == CHOOSE i \in Priced(e) : \A j \in Priced(e) : i <= j
LastPriced(e)  == CHOOSE i \in Priced(e) : \A j \in Priced(e) : i >= j

\* C15 as claimed: the price of a candidate is the text of the first <p>
\* of its anchor that has a "$", and "N/A" if there is none.
C15_FirstPriceWins ==
    pc \in {"visiting", "returned"} =>
        \A k \in 1..Len(allProducts) :
            LET e == page[KeptAt(page, Cardinality(Seen))[k]]
            IN  allProducts[k].Price =
                    IF Priced(e) = {} THEN Text(NA, 0)
                    ELSE e.ps[FirstPriced(e)].text

\* C15 as amended: the price of a candidate is the text of the last <p>
\* of its anchor that has a "$", and "N/A" if there is none.
C15_LastPriceWins ==
    pc \in {"visiting", "returned"} =>
        \A k \in 1..Len(allProducts) :
            LET e == page[KeptAt(page, Cardinality(Seen))[k]]
            IN  allProducts[k].Price =
                    IF Priced(e) = {} THEN Text(NA, 0)
                    ELSE e.ps[LastPriced(e)].text

\* a summary over an anchor with two different prices and over one with none
C15_Witness ==
    /\ Summarized
    /\ \E k \in 1..Len(allProducts) :
          LET e == page[KeptAt(page, Cardinality(Seen))[k]]
          IN  /\ Cardinality(Priced(e)) = 2
              /\ e.ps[FirstPriced(e)].text # e.ps[LastPriced(e)].text
    /\ \E k \in 1..Len(allProducts) : allProducts[k].Price = Text(NA, 0)

\* the place of a phase in the pipeline of the design; EXTRACT and DEDUP
\* share a place, both being decisions that touch nothing
Rank(ph) ==
    CASE ph = "LOAD_KNOWN"     -> 1
      [] ph = "FETCH_DOCUMENT" -> 2
      [] ph = "EXTRACT"        -> 3
      [] ph = "DEDUP"          -> 3
      [] ph = "PERSIST_EACH"   -> 4
      [] ph = "SUMMARIZE"      -> 5
      [] ph = "DONE"           -> 6
      [] ph = "FAILED"         -> 6

Count(ph) == Cardinality({ i \in 1..Len(phases) : phases[i] = ph })

PhaseSteps ==
    { <<"LOAD_KNOWN", "FETCH_DOCUMENT">>, <<"LOAD_KNOWN", "FAILED">>,
      <<"FETCH_DOCUMENT", "EXTRACT">>, <<"FETCH_DOCUMENT", "SUMMARIZE">>,
      <<"FETCH_DOCUMENT", "FAILED">>,
      <<"EXTRACT", "DEDUP">>,
      <<"DEDUP", "PERSIST_EACH">>, <<"DEDUP", "EXTRACT">>,
      <<"DEDUP", "SUMMARIZE">>,
      <<"PERSIST_EACH", "EXTRACT">>, <<"PERSIST_EACH", "SUMMARIZE">>,
      <<"SUMMARIZE", "DONE">>, <<"SUMMARIZE", "FAILED">> }

RECURSIVE IsSubseq(_, _)
IsSubseq(a, b) ==
    IF a = <<>> THEN TRUE
    ELSE IF b = <<>> THEN FALSE
    ELSE IF Head(a) = Head(b) THEN IsSubseq(Tail(a), Tail(b))
    ELSE IsSubseq(a, Tail(b))

\* C17: at every point of a run discoveredProducts is an order-preserving
\* subsequence of allProducts (the records of allProducts whose id is not
\* known, in the same order), its records are in document order, and a
\* returned summary has numberIndexed <= numberDiscovered.
C17_NewIsSubsequence ==
    pc \in {"visiting", "returned"} =>
        /\ IsSubseq(discoveredProducts, allProducts)
        /\ discoveredProducts =
              SelectSeq(allProducts,
                        LAMBDA p : ~IsExisting(existingProducts, p.Id))
        /\ Len(putLog) = Len(discoveredProducts)
        /\ \A k \in 1..Len(putLog) :
              /\ discoveredProducts[k] = Candidate(page[putLog[k].at])
              /\ k > 1 => putLog[k - 1].at < putLog[k].at
        /\ Summarized =>
              /\ resp.NumberIndexed <= resp.NumberDiscovered
              /\ resp.NumberIndexed = Len(discoveredProducts)
              /\ resp.NumberDiscovered = Len(allProducts)

\* a summary of a run that found two different new records
C17_Witness ==
    /\ Summarized
    /\ Len(discoveredProducts) = 2
    /\ discoveredProducts[1] # discoveredProducts[2]
    /\ resp.NumberIndexed = 2

\* C18: the step that loads the known set makes it the ids of the items
\* the scan returned, whatever it held before, and no later step of the run
\* (fetch, callback with or without a store write, summary, cancellation)
\* changes it.
C18_KnownSetRebuiltAndFrozen ==
    [][ /\ (pc \in {"idle", "returned"} /\ pc' = "loaded") =>
              \E items \in ScanResults(table) :
                  existingProducts' = KnownIds(items)
        /\ pc \in {"loaded", "visiting"} =>
              existingProducts' = existingProducts ]_vars

\* the end of a second run in the same process whose known set lacks an id
\* the first run knew, after a store write that succeeded and one that failed
C18_Witness ==
    /\ run = 2
    /\ pc = "returned"
    /\ prev.returned
    /\ prev.known \ existingProducts # {}
    /\ \E k \in 1..Len(putLog) : putLog[k].ok
    /\ \E k \in 1..Len(putLog) : ~putLog[k].ok

\* the last of the parts that is not empty; empty when there is none
LastNonEmptySegment(parts) ==
    LET full == { i \in 1..Len(parts) : parts[i] # <<>> }
    IN  IF full = {} THEN <<>>
        ELSE parts[CHOOSE i \in full : \A j \in full : j <= i]

\* C19: the id the callback derives from an href is the final non-empty
\* segment of the href split on "/", and the url is the href unchanged; an
\* anchor with such a segment and a name is therefore a candidate record
\* with that id.
C19_IdIsLastNonEmptySegment ==
    \A n \in Seen :
        LET e == page[n]
            id == LastNonEmptySegment(Split(e.href, "/"))
        IN  /\ Candidate(e).Id = id
            /\ Candidate(e).URL = e.href
            /\ (id # <<>> /\ HasName(e)) =>
                  \E k \in 1..Len(allProducts) :
                      allProducts[k].Id = id /\ allProducts[k].URL = e.href

\* C20 as claimed, the part about single runs: a product whose store write
\* failed in the previous run and that is still not in the table is not in
\* the known set of this run, and this run calls PutItem for each of its
\* anchors; a product that was in the table when this run scanned it is not
\* written by this run.
C20_RetryUntilStoredThenNeverAgain ==
    (scan \in {"ok", "truncated"} /\ pc \in {"visiting", "returned"}) =>
        /\ \A id \in prev.failed \ atScan :
              /\ id \notin existingProducts
              /\ \A n \in Seen :
                    (AllFields(page[n]) /\ IdOf(page[n].href) = id) =>
                        \E k \in 1..Len(putLog) : putLog[k].at = n
        /\ \A k \in 1..Len(putLog) : putLog[k].id \notin atScan

(***************************************************************************)
(* Properties of two interleaved scraper runs (specification RaceSpec).    *)
(***************************************************************************)
\* the successful PutItem calls of both instances, as <<id, time>>
GoodPuts ==
    { <<putLog[k].id, putLog[k].t>> : k \in { j \in 1..Len(putLog) : putLog[j].ok } }
      \cup
    { <<putLog2[k].id, putLog2[k].t>> :
          k \in { j \in 1..Len(putLog2) : putLog2[j].ok } }

\* C12: the table holds one item per id, and that item is the one of the
\* latest successful PutItem call for the id, whichever instance made it
\* (a later write replaces, it is not rejected); neither instance ends in
\* the fatal exit after a write, and an instance that got the page returns
\* its summary unless its own payload is too large.
C12_RaceOverwrites ==
    /\ \A x, y \in table : x.Id = y.Id => x = y
    /\ \A g \in GoodPuts :
          \E it \in table :
             /\ it.Id = g[1]
             /\ it.DateIndexed >= g[2]
             /\ \E h \in GoodPuts : h[1] = g[1] /\ h[2] = it.DateIndexed
    /\ pc = "fatal" => putLog = <<>>
    /\ pc2 = "fatal" => putLog2 = <<>>
    /\ (pc = "returned" /\ idx > 0 /\ MarshalLen(allProducts) <= PayloadLimit)
          => err = "nil"
    /\ (pc2 = "returned" /\ idx2 > 0
           /\ MarshalLen(allProducts2) <= PayloadLimit) => err2 = "nil"

\* both instances returned a summary, and the second stored an id the first
\* had already stored
C12_Witness ==
    /\ pc = "returned" /\ err = "nil"
    /\ pc2 = "returned" /\ err2 = "nil"
    /\ \E j \in 1..Len(putLog), k \in 1..Len(putLog2) :
          /\ putLog[j].id = putLog2[k].id
          /\ putLog[j].ok /\ putLog2[k].ok
          /\ putLog[j].t < putLog2[k].t

(***************************************************************************)
(* Properties of the notifier (specification NotifierSpec).                *)
(***************************************************************************)
\* the messages of those INSERT records among the first n that carry an
\* id, a name or a url, in batch order
RECURSIVE InsertMessages(_, _)
InsertMessages(ev, n) ==
    IF n = 0 THEN <<>>
    ELSE IF ev[n].EventName = "INSERT" /\ ~FailedToParse(ev[n])
         THEN Append(InsertMessages(ev, n - 1), NotifyMessage(ev[n]))
         ELSE InsertMessages(ev, n - 1)

\* C9 as claimed, for the INSERT records that carry a field: not in local
\* mode and with every delivery call successful, the delivery service got
\* exactly one message per INSERT record, in batch order, whatever records
\* came before it.
C9_EveryInsertNotified ==
    (nPc = "returned" /\ ~local /\ nErr = "nil")
        => sent = InsertMessages(event, Len(event))

\* the messages of the successful delivery calls, in call order
RECURSIVE Delivered(_, _)
Delivered(cs, ev) ==
    IF cs = <<>> THEN <<>>
    ELSE LET c == cs[Len(cs)]
             before == Delivered(SubSeq(cs, 1, Len(cs) - 1), ev)
         IN  IF c.ok THEN Append(before, NotifyMessage(ev[c.i])) ELSE before

\* C21: when a delivery call fails, Handler returns an error with the empty
\* response; the failed call is the last call of the invocation, so no later
\* record gets a call; what was delivered before stays delivered; and every
\* invocation, a redelivery included, makes its calls from the first record
\* on, so the records before the failed one are notified again.
C21_FailedDeliveryStopsBatch ==
    /\ sent = Delivered(calls, event)
    /\ \A k \in 1..Len(calls) :
          /\ ~calls[k].ok =>
                \A m \in (k + 1)..Len(calls) : calls[m].att > calls[k].att
          /\ \A j \in 1..(calls[k].i - 1) :
                event[j].EventName = "INSERT" =>
                    \E m \in 1..(k - 1) :
                        /\ calls[m].att = calls[k].att
                        /\ calls[m].i = j
                        /\ calls[m].ok
    /\ (nPc = "returned" /\ nErr # "nil") =>
          /\ nResp = EmptyNotifierResponse
          /\ calls # <<>>
          /\ calls[Len(calls)] = [att |-> attempt, i |-> nI, ok |-> FALSE]

\* a redelivered batch failed again at its second record, after the first
\* record was notified in both invocations
C21_Witness ==
    /\ nPc = "returned"
    /\ nErr # "nil"
    /\ attempt = 2
    /\ Len(sent) = 2
    /\ sent[1] = sent[2]
    /\ calls[Len(calls)].i = 2

====
